---- MODULE Spec2Model ----
(***************************************************************************)
(* The model-lifecycle quality gate of kubeflow-test: the deployment       *)
(* threshold gate (src/src/evaluate_model.py) and the drift monitor        *)
(* (src/src/monitor_drift.py, class DriftMonitor).                         *)
(*                                                                         *)
(* Numbers.  Every float in [0,1] (accuracy, F1, a threshold, a drift      *)
(* score, a success rate) is an integer number of hundredths, 0..100; the  *)
(* comparisons of the code are kept as written (>=, >, <) on that scale.   *)
(* The chi-square statistic and its p-value are numbers of thousandths.    *)
(* A relative frequency is kept exact, as the triple <<num, den, exp>>     *)
(* standing for num/den * 10^-exp.                                         *)
(*                                                                         *)
(* Harness.  The core operations are functions called by a caller; the     *)
(* state records the invocation in progress: op (the operation), inp (its  *)
(* arguments), out (what it returned, or the error it raised) and prev     *)
(* (what the same operation returned on the same arguments the call        *)
(* before, when the caller has just repeated the call).  arg is the        *)
(* caller's argument objects as the operation left them, and given is the  *)
(* reference data as it was handed to the constructor.  Return drops the   *)
(* record: a result has no identity beyond its invocation.                 *)
(*                                                                         *)
(* Concurrency.  A second specification, SpecConc, runs one invocation per *)
(* thread, interleaved: threads holds each thread's call and how far it    *)
(* has got, rng the state of numpy's global generator (the labels its next *)
(* draws return), seeded that state when the threads started.              *)
(*                                                                         *)
(* Around the core.  Three more specifications model the programs around   *)
(* the core operations, each over variables of its own:                    *)
(*   SpecPipeline  a run of one of the two Kubeflow pipelines              *)
(*                 (src/src/pipelines): run, tasks, artifacts;             *)
(*   SpecServe     the serving process (src/src/serve_model.py): its       *)
(*                 globals MODEL, SCALER, MODEL_INFO, the number of loads  *)
(*                 and the last response;                                  *)
(*   SpecSubmit    submit_to_kubeflow (src/src/run_pipeline.py): kfp, the  *)
(*                 Kubeflow server, and submit, the call in progress.      *)
(* Under each specification the variables of the others keep their initial *)
(* values.                                                                 *)
(***************************************************************************)
EXTENDS Integers, Sequences, FiniteSets

VARIABLES monitor, given, op, inp, arg, out, prev, threads, rng, seeded,
          run, tasks, artifacts,
          MODEL, SCALER, MODEL_INFO, loads, response,
          kfp, submit

pipe == <<run, tasks, artifacts>>

serve == <<MODEL, SCALER, MODEL_INFO, loads, response>>

kube == <<kfp, submit>>

vars == <<monitor, given, op, inp, arg, out, prev, threads, rng, seeded, pipe, serve, kube>>

-----------------------------------------------------------------------------
(* Bounds of the model *)

\* inputs are drawn within Spread hundredths of each decision boundary
Spread == 1

\* largest n_features_drifted a caller hands to the summary
MaxDrifted == 4

\* largest number of tests a drift test suite reports
MaxTests == 5

\* readings of the wall clock: 0..MaxClock
MaxClock == 1

\* most rows in a column of predictions
MaxSamples == 7

\* most rows in the monitor's reference data
MaxRef == 2

\* most calls of load_model_artifacts in the life of a serving process
MaxLoads == 2

\* most instances in a batch prediction request
MaxBatch == 3

\* largest cv_folds handed to the cross-validation
MaxFolds == 3

\* most samples of one class in the labels handed to the cross-validation
MaxClassRows == 3

-----------------------------------------------------------------------------
(* Values shared by the operations *)

None == [is_none |-> TRUE]

Near(c) == {v \in 0..100 : c - Spread <= v /\ v <= c + Spread}

\* default accuracy_threshold / f1_threshold of check_model_thresholds, 0.8
DefaultThreshold == 80

\* metrics a caller can hand over although no accuracy or F1 score has them:
\* -0.01 and 1.01, just outside [0,1]
OutOfRange == {-1, 101}

\* observed metrics: the ends of [0,1] and the neighbourhood of a threshold,
\* and the values just outside [0,1], which the function accepts like any float
MetricValues == {0, 100} \cup Near(DefaultThreshold) \cup OutOfRange

\* thresholds in (0,1]: the default and its neighbourhood, and 1.0
ThresholdValues == {100} \cup Near(DefaultThreshold)

-----------------------------------------------------------------------------
(* ThresholdGate: check_model_thresholds, src/src/evaluate_model.py:173-210 *)

accuracy_check_gt(evaluation_results, accuracy_threshold) ==
    evaluation_results.accuracy > accuracy_threshold

\* line 194
accuracy_check(evaluation_results, accuracy_threshold) ==
    evaluation_results.accuracy >= accuracy_threshold

\* line 195
f1_check(evaluation_results, f1_threshold) ==
    evaluation_results.f1_score >= f1_threshold

all_any(checks) ==
    \E i \in 1..Len(checks) : checks[i]

\* Python's all() over the list built at line 204
all(checks) ==
    \A i \in 1..Len(checks) : checks[i]

\* lines 193-210: the dict is built with all_checks_passed = True and the
\* overall check then overwrites that one key
check_model_thresholds(evaluation_results, accuracy_threshold, f1_threshold) ==
    LET checks == [accuracy_check     |-> accuracy_check(evaluation_results, accuracy_threshold),
                   f1_check           |-> f1_check(evaluation_results, f1_threshold),
                   accuracy_value     |-> evaluation_results.accuracy,
                   f1_value           |-> evaluation_results.f1_score,
                   accuracy_threshold |-> accuracy_threshold,
                   f1_threshold       |-> f1_threshold,
                   all_checks_passed  |-> TRUE]
    IN  [checks EXCEPT !.all_checks_passed = all(<<checks.accuracy_check, checks.f1_check>>)]

evaluation_results_aliased(evaluation_results, accuracy_threshold, f1_threshold) ==
    [accuracy          |-> evaluation_results.accuracy,
     f1_score          |-> evaluation_results.f1_score,
     all_checks_passed |-> all(<<accuracy_check(evaluation_results, accuracy_threshold),
                                 f1_check(evaluation_results, f1_threshold)>>)]

\* lines 193-204: the caller's evaluation_results dict after the call.  The
\* function reads two keys of it; checks is a dict of its own, and line 204
\* assigns into checks.
evaluation_results_after(evaluation_results, accuracy_threshold, f1_threshold) ==
    evaluation_results

-----------------------------------------------------------------------------
(* StabilityEstimator: perform_cross_validation,                           *)
(* src/src/evaluate_model.py:135-170.  cross_val_score is scikit-learn's;  *)
(* for a classifier and an integer cv it splits with StratifiedKFold.      *)

\* the labels y, as the number of samples of each class
LabelCounts == [0..2 -> 0..MaxClassRows]

\* the classes that occur in y
classes(y) == {i \in DOMAIN y : y[i] > 0}

\* accuracies a fitted model attains on a test fold
FoldScores == {50, 100}

\* line 156, cv=cv_folds: how the split ends.  An integer cv below 2 is
\* rejected with a ValueError, and so are empty labels and a number of
\* splits greater than the number of members of every class; when only
\* some class has fewer members than splits the library warns and splits.
stratified_k_fold(cv_folds, y) ==
    IF cv_folds < 2 THEN "ValueError"
    ELSE IF classes(y) = {} THEN "ValueError"
    ELSE IF \A i \in classes(y) : cv_folds > y[i] THEN "ValueError"
    ELSE "none"

\* numpy: the integer square root, for the standard deviation
ISqrt(x, most) ==
    CHOOSE r \in 0..most : r * r <= x /\ x < (r + 1) * (r + 1)

RECURSIVE Total(_)
Total(s) ==
    IF s = <<>> THEN 0 ELSE Head(s) + Total(Tail(s))

\* lines 156-170; model_scores stands for the model and X: the accuracy
\* the refitted model attains on each test fold
perform_cross_validation(model_scores, y, cv_folds) ==
    LET raised == stratified_k_fold(cv_folds, y)
        cv_scores == [k \in 1..cv_folds |-> model_scores[k]]
        n == cv_folds
        squares == [k \in 1..n |-> cv_scores[k] * cv_scores[k]]
    IN  IF raised # "none" THEN [raised |-> raised]
        ELSE [raised    |-> "none",
              cv_scores |-> cv_scores,
              cv_mean   |-> Total(cv_scores) \div n,
              cv_std    |-> ISqrt(n * Total(squares) - Total(cv_scores) * Total(cv_scores),
                                  100 * n) \div n,
              cv_min    |-> CHOOSE v \in FoldScores :
                                /\ \E k \in 1..n : cv_scores[k] = v
                                /\ \A k \in 1..n : cv_scores[k] >= v,
              cv_max    |-> CHOOSE v \in FoldScores :
                                /\ \E k \in 1..n : cv_scores[k] = v
                                /\ \A k \in 1..n : cv_scores[k] <= v]

-----------------------------------------------------------------------------
(* MonitoringSummarizer: DriftMonitor.generate_monitoring_summary,         *)
(* src/src/monitor_drift.py:269-339                                        *)

\* line 289: dataset_drift_score > 0.7
SeverityHigh == 70

\* line 291: dataset_drift_score > 0.5
SeverityMedium == 50

\* line 301: n_features_drifted > 2
FeaturesDriftedLimit == 2

\* line 306: success_rate < 0.8
SuccessRateFloor == 80

Retrain == "Consider retraining the model with recent data"
InvestigatePipeline == "Multiple features showing drift - investigate data pipeline"
ImmediateAttention == "Drift tests failing - immediate attention required"
MonitorPerformance == "Prediction distribution shifted - monitor model performance"

\* Python's truth value of the optional prediction_drift argument (lines
\* 309 and 333): None is false, a result dict (never empty) is true
Truthy(prediction_drift) ==
    ~prediction_drift.is_none

drift_severity_ge(data_drift_results) ==
    IF data_drift_results.dataset_drift_detected
    THEN IF data_drift_results.dataset_drift_score >= SeverityHigh THEN "high"
         ELSE IF data_drift_results.dataset_drift_score >= SeverityMedium THEN "medium"
         ELSE "low"
    ELSE "none"

\* lines 287-294
drift_severity(data_drift_results) ==
    IF data_drift_results.dataset_drift_detected
    THEN IF data_drift_results.dataset_drift_score > SeverityHigh THEN "high"
         ELSE IF data_drift_results.dataset_drift_score > SeverityMedium THEN "medium"
         ELSE "low"
    ELSE "none"

overall_status_high_only(severity) ==
    IF severity = "high" THEN "alert" ELSE "ok"

\* line 317
overall_status(severity) ==
    IF severity \in {"medium", "high"} THEN "alert" ELSE "ok"

\* one `if ...: recommendations.append(...)` statement
AppendIf(recommendations, cond, entry) ==
    IF cond THEN Append(recommendations, entry) ELSE recommendations

recommendations_any_drift(severity, data_drift_results, test_results, prediction_drift) ==
    LET r0 == <<>>
        r1 == AppendIf(r0, severity # "none", Retrain)
        r2 == AppendIf(r1, data_drift_results.n_features_drifted > FeaturesDriftedLimit,
                       InvestigatePipeline)
        r3 == AppendIf(r2, test_results.success_rate < SuccessRateFloor, ImmediateAttention)
        r4 == AppendIf(r3, Truthy(prediction_drift) /\ prediction_drift.drift_detected,
                       MonitorPerformance)
    IN  r4

recommendations_swapped(severity, data_drift_results, test_results, prediction_drift) ==
    LET r0 == <<>>
        r1 == AppendIf(r0, data_drift_results.n_features_drifted > FeaturesDriftedLimit,
                       InvestigatePipeline)
        r2 == AppendIf(r1, severity \in {"medium", "high"}, Retrain)
        r3 == AppendIf(r2, test_results.success_rate < SuccessRateFloor, ImmediateAttention)
        r4 == AppendIf(r3, Truthy(prediction_drift) /\ prediction_drift.drift_detected,
                       MonitorPerformance)
    IN  r4

\* lines 297-312
recommendations(severity, data_drift_results, test_results, prediction_drift) ==
    LET r0 == <<>>
        r1 == AppendIf(r0, severity \in {"medium", "high"}, Retrain)
        r2 == AppendIf(r1, data_drift_results.n_features_drifted > FeaturesDriftedLimit,
                       InvestigatePipeline)
        r3 == AppendIf(r2, test_results.success_rate < SuccessRateFloor, ImmediateAttention)
        r4 == AppendIf(r3, Truthy(prediction_drift) /\ prediction_drift.drift_detected,
                       MonitorPerformance)
    IN  r4

summary_with_dated_check(data_drift_results, test_results, prediction_drift, now) ==
    LET severity == drift_severity(data_drift_results)
    IN  [monitoring_timestamp |-> now,
         overall_status  |-> overall_status(severity),
         drift_severity  |-> severity,
         data_drift      |-> [detected          |-> data_drift_results.dataset_drift_detected,
                              score             |-> data_drift_results.dataset_drift_score,
                              features_affected |-> data_drift_results.n_features_drifted],
         test_summary    |-> [total_tests  |-> test_results.total_tests,
                              passed       |-> test_results.passed_tests,
                              success_rate |-> test_results.success_rate],
         recommendations |-> recommendations(severity, data_drift_results, test_results,
                                             prediction_drift),
         next_check      |-> <<"Monitor daily for the week after", now>>,
         prediction_drift |-> IF Truthy(prediction_drift)
                              THEN [is_none       |-> FALSE,
                                    detected      |-> prediction_drift.drift_detected,
                                    kl_divergence |-> prediction_drift.kl_divergence]
                              ELSE None]

\* lines 286-339; now is the reading of datetime.now() at line 316
generate_monitoring_summary(data_drift_results, test_results, prediction_drift, now) ==
    LET severity == drift_severity(data_drift_results)
    IN  [monitoring_timestamp |-> now,
         overall_status  |-> overall_status(severity),
         drift_severity  |-> severity,
         data_drift      |-> [detected          |-> data_drift_results.dataset_drift_detected,
                              score             |-> data_drift_results.dataset_drift_score,
                              features_affected |-> data_drift_results.n_features_drifted],
         test_summary    |-> [total_tests  |-> test_results.total_tests,
                              passed       |-> test_results.passed_tests,
                              success_rate |-> test_results.success_rate],
         recommendations |-> recommendations(severity, data_drift_results, test_results,
                                             prediction_drift),
         next_check      |-> "Monitor daily for the next week",
         prediction_drift |-> IF Truthy(prediction_drift)
                              THEN [is_none       |-> FALSE,
                                    detected      |-> prediction_drift.drift_detected,
                                    kl_divergence |-> prediction_drift.kl_divergence]
                              ELSE None]

\* dataset_drift_score values a caller hands to the summary
ScoreValues == {0, 100} \cup Near(SeverityMedium) \cup Near(SeverityHigh)

\* data_drift_results dicts a caller hands to the summary (the keys it reads)
DataDriftInputs ==
    [dataset_drift_detected : BOOLEAN,
     dataset_drift_score    : ScoreValues,
     n_features_drifted     : 0..MaxDrifted]

\* lines 180-189: the summary run_drift_tests builds from the suite's counts
tests_summary(total_tests, success_tests) ==
    [total_tests  |-> total_tests,
     passed_tests |-> success_tests,
     failed_tests |-> total_tests - success_tests,
     success_rate |-> (100 * success_tests) \div total_tests]

TestSummaries ==
    {tests_summary(c[1], c[2]) :
        c \in {x \in (1..MaxTests) \X (0..MaxTests) : x[2] <= x[1]}}

\* prediction_drift arguments of the summary (the keys it reads)
PredictionDriftInputs ==
    {None} \cup {[is_none |-> FALSE, drift_detected |-> d, kl_divergence |-> 0] :
                    d \in BOOLEAN}

Clock == 0..MaxClock

-----------------------------------------------------------------------------
(* PredictionDriftAnalyzer: DriftMonitor.monitor_prediction_drift,         *)
(* src/src/monitor_drift.py:207-267                                        *)

\* line 244: range(3), the classes of Iris; line 229 samples from [0, 1, 2]
NumClasses == 3

Labels == 0..(NumClasses - 1)

\* lines 245-246: the default 1e-10 of .get()
FloorExp == 10

\* the float 1e-10
Floor == <<1, 1, FloorExp>>

\* the float count/total (kept unreduced: every value of one Series has the
\* Series' row count as denominator)
Freq(count, total) == <<count, total, 0>>

\* float("nan"), the p-value of a statistic with no degree of freedom
NaN == -1

\* A "prediction" column is read only through value_counts, which does not
\* see the order of its rows: the column is the bag of its labels,
\* label -> number of rows.
Rows(column) == column[0] + column[1] + column[2]

PredictionColumns ==
    {column \in [Labels -> 0..MaxSamples] : Rows(column) \in 1..MaxSamples}

\* line 229: np.random.choice([0, 1, 2], size=n_samples), every outcome
random_choice(n_samples) ==
    {column \in [Labels -> 0..n_samples] : Rows(column) = n_samples}

\* lines 233-240: column.value_counts(normalize=True).sort_index(), a Series:
\* one entry per label that occurs, in increasing label order
sorted_value_counts(column) ==
    LET entry(i) == [index |-> i - 1, value |-> Freq(column[i - 1], Rows(column))]
    IN  SelectSeq([i \in 1..NumClasses |-> entry(i)],
                  LAMBDA e : column[e.index] > 0)

\* Series.get(i, default)
get(series, i, default) ==
    IF \E k \in DOMAIN series : series[k].index = i
    THEN series[CHOOSE k \in DOMAIN series : series[k].index = i].value
    ELSE default

\* Series.values: the values alone, by position
values(series) ==
    [k \in DOMAIN series |-> series[k].value]

\* Series.to_dict(): label -> value
to_dict(series) ==
    [l \in {series[k].index : k \in DOMAIN series} |-> get(series, l, Floor)]

kl_divergence_floor_mismatch(reference_dist, current_dist) ==
    [i \in Labels |-> [p |-> get(reference_dist, i, Floor),
                       q |-> get(current_dist, i, <<1, 1, FloorExp - 1>>)]]

kl_divergence_swapped(reference_dist, current_dist) ==
    [i \in Labels |-> [p |-> get(current_dist, i, Floor),
                       q |-> get(reference_dist, i, Floor)]]

\* lines 243-247: the sum over i in range(3) of p * log(p / q), kept as its
\* three terms
kl_divergence(reference_dist, current_dist) ==
    [i \in Labels |-> [p |-> get(reference_dist, i, Floor),
                       q |-> get(current_dist, i, Floor)]]

RECURSIVE Product(_)
Product(s) ==
    IF s = <<>> THEN 1 ELSE Head(s) * Product(Tail(s))

RECURSIVE Sum(_)
Sum(s) ==
    IF s = <<>> THEN 0 ELSE Head(s) + Sum(Tail(s))

\* sum((f_obs - f_exp)**2 / f_exp) in thousandths, rounded down; f_obs has
\* values a_k/n and f_exp values b_k/m, so the sum is
\* sum_k (a_k*m - b_k*n)^2 * prod_{j # k} b_j  /  (n^2 * m * prod_j b_j)
chi2_statistic(f_obs, f_exp) ==
    LET n == f_obs[1][2]
        m == f_exp[1][2]
        b == [k \in DOMAIN f_exp |-> f_exp[k][1]]
        d(k) == f_obs[k][1] * m - b[k] * n
        others(k) == [j \in DOMAIN b |-> IF j = k THEN 1 ELSE b[j]]
        num == Sum([k \in DOMAIN b |-> d(k) * d(k) * Product(others(k))])
        den == n * n * m * Product(b)
    IN  (1000 * num) \div den

\* scipy.stats.chi2.sf(statistic, dof) in thousandths, at the resolution of a
\* table of the upper quantiles of the chi-square distribution (statistic in
\* thousandths): the largest tabulated level the p-value reaches
chi2_sf(statistic, dof) ==
    LET q == IF dof = 1 THEN <<16, 455, 2706, 3841, 6635, 10828>>
                        ELSE <<211, 1386, 4605, 5991, 9210, 13816>>
    IN  IF dof = 0 THEN NaN
        ELSE IF statistic = 0 THEN 1000
        ELSE IF statistic <= q[1] THEN 900
        ELSE IF statistic <= q[2] THEN 500
        ELSE IF statistic <= q[3] THEN 100
        ELSE IF statistic <= q[4] THEN 50
        ELSE IF statistic <= q[5] THEN 10
        ELSE IF statistic <= q[6] THEN 1
        ELSE 0

\* scipy.stats.chisquare(f_obs, f_exp), called at line 252: arrays of
\* different lengths do not broadcast, or broadcast to sums that disagree,
\* and raise ValueError; otherwise the statistic pairs the values by position
chisquare(f_obs, f_exp) ==
    IF Len(f_obs) # Len(f_exp)
    THEN [raised |-> "ValueError"]
    ELSE [raised    |-> "none",
          statistic |-> chi2_statistic(f_obs, f_exp),
          pvalue    |-> chi2_sf(chi2_statistic(f_obs, f_exp), Len(f_obs) - 1)]

LessOrEqual(x, y) ==
    x # NaN /\ y # NaN /\ x <= y

\* a float comparison x < y: false when either side is nan
Less(x, y) ==
    x # NaN /\ y # NaN /\ x < y

\* line 258: p_value < 0.05 (p-values in thousandths)
Significance == 50

prediction_drift_of_swallowing(current_column, reference_column) ==
    LET current_dist   == sorted_value_counts(current_column)
        reference_dist == sorted_value_counts(reference_column)
        test == chisquare(values(current_dist), values(reference_dist))
    IN  [raised                 |-> "none",
         kl_divergence          |-> kl_divergence(reference_dist, current_dist),
         chi2_statistic         |-> IF test.raised = "none" THEN test.statistic ELSE 0,
         p_value                |-> IF test.raised = "none" THEN test.pvalue ELSE NaN,
         drift_detected         |-> test.raised = "none" /\ Less(test.pvalue, Significance),
         current_distribution   |-> to_dict(current_dist),
         reference_distribution |-> to_dict(reference_dist),
         chi2_pairing           |-> <<>>]

\* lines 232-267, from the two columns the distributions are built of.
\* chi2_pairing is not a key of the returned dict: it records the labels
\* whose values line 252 hands to chisquare at the same position.
prediction_drift_of(current_column, reference_column) ==
    LET current_dist   == sorted_value_counts(current_column)
        reference_dist == sorted_value_counts(reference_column)
        kl   == kl_divergence(reference_dist, current_dist)
        test == chisquare(values(current_dist), values(reference_dist))
    IN  IF test.raised # "none"
        THEN [raised |-> test.raised]
        ELSE [raised                 |-> "none",
              kl_divergence          |-> kl,
              chi2_statistic         |-> test.statistic,
              p_value                |-> test.pvalue,
              drift_detected         |-> Less(test.pvalue, Significance),
              current_distribution   |-> to_dict(current_dist),
              reference_distribution |-> to_dict(reference_dist),
              chi2_pairing           |-> [k \in DOMAIN current_dist |->
                                            <<current_dist[k].index,
                                              reference_dist[k].index>>]]

\* lines 224-230: the reference column the analysis uses; with no
\* reference_predictions, any sample of len(self.reference_data) labels
reference_columns(self, reference_predictions) ==
    IF reference_predictions.is_none
    THEN random_choice(self.n_reference)
    ELSE {reference_predictions.column}

-----------------------------------------------------------------------------
(* FeatureDriftAnalyzer and DatasetDriftAggregator:                        *)
(* DriftMonitor.detect_data_drift, src/src/monitor_drift.py:78-152.        *)
(* The statistics are Evidently's (Report, DatasetDriftMetric,             *)
(* DataDriftTable); the model takes the report to carry the keys the code  *)
(* reads, with the values the library's defaults give them.                *)

\* lines 66-71: numerical_features of the column mapping
Features ==
    {"sepal length (cm)", "sepal width (cm)", "petal length (cm)", "petal width (cm)"}

\* line 64 (and the column skipped at line 122)
Target == "species"

\* the columns of the reference data, which the current data shares
Columns(self) ==
    (IF self.has_features THEN Features ELSE {}) \cup
    (IF self.has_target THEN {Target} ELSE {})

\* line 96: DatasetDriftMetric() is built with no argument, so the report
\* uses the library's default drift_share, 0.5
DefaultDriftShare == 50

\* line 127: the per-column threshold the table reports, the library's
\* default 0.05 for a p-value test (p-values of columns in hundredths)
StattestThreshold == 5

\* The current data, as far as the report reads it: for each column, the
\* p-value of the two-sample test of its current sample against its
\* reference sample.  1.0 is the p-value of a sample identical to the
\* reference.
ColumnPValues == {1, 50, 100}

CurrentData(self) ==
    [Columns(self) -> ColumnPValues]

\* the current data when it is the reference data itself: every column's
\* sample is tested against an identical sample, p-value 1.0
reference_as_current(self) ==
    [column \in Columns(self) |-> 100]

\* lines 103-108: how data_drift_report.run (and drift_tests.run, lines
\* 169-174) ends.  With the mapped feature columns in the data it returns;
\* with none of the columns of numerical_features in the data (only the
\* target is shared) the library either computes over the columns there are
\* or rejects the mapping with an error of its own.
report_run(self) ==
    IF self.has_features THEN {"none"} ELSE {"none", "ValueError"}

drift_by_columns_by_distance(self, current_data) ==
    [column \in Columns(self) |->
        [drift_detected |-> current_data[column] >= StattestThreshold,
         drift_score    |-> current_data[column],
         stattest_name  |-> "distance",
         threshold      |-> StattestThreshold]]

\* lines 94-111, metric 1: DataDriftTable, one entry per column the two
\* frames share, the target among them
drift_by_columns(self, current_data) ==
    [column \in Columns(self) |->
        [drift_detected |-> current_data[column] < StattestThreshold,
         drift_score    |-> current_data[column],
         stattest_name  |-> "p_value",
         threshold      |-> StattestThreshold]]

\* lines 94-111, metric 0: DatasetDriftMetric() over the same columns: the
\* share of drifted columns, and whether it reaches drift_share
dataset_drift_metric(self, current_data) ==
    LET table   == drift_by_columns(self, current_data)
        drifted == Cardinality({column \in DOMAIN table : table[column].drift_detected})
        share   == (100 * drifted) \div Cardinality(DOMAIN table)
    IN  [dataset_drift |-> share >= DefaultDriftShare,
         drift_score   |-> share]

feature_drift_with_target(drift_table) ==
    drift_table

\* lines 118-128: the table without the target column
feature_drift(drift_table) ==
    [column \in DOMAIN drift_table \ {Target} |-> drift_table[column]]

\* lines 135-137
n_features_drifted(features) ==
    Cardinality({column \in DOMAIN features : features[column].drift_detected})

\* lines 110-152; now is the reading of datetime.now() at line 138.  The
\* HTML report of lines 142-148 is a file, not part of the result.
detect_data_drift(self, current_data, now) ==
    LET metric0  == dataset_drift_metric(self, current_data)
        features == feature_drift(drift_by_columns(self, current_data))
    IN  [raised                 |-> "none",
         dataset_drift_detected |-> metric0.dataset_drift,
         dataset_drift_score    |-> metric0.drift_score,
         feature_drift          |-> features,
         n_features_drifted     |-> n_features_drifted(features),
         timestamp              |-> now]

\* line 167: DataDriftTestPreset() is built with no argument; its test of
\* the share of drifted columns succeeds below the library's default, 0.3
TestDriftShare == 30

\* lines 66-71: the feature columns in the order of numerical_features
FeatureOrder ==
    <<"sepal length (cm)", "sepal width (cm)", "petal length (cm)", "petal width (cm)">>

\* the columns the suite tests one by one: the target, then the features
TestedColumns(self) ==
    (IF self.has_target THEN <<Target>> ELSE <<>>) \o
    (IF self.has_features THEN FeatureOrder ELSE <<>>)

Status(success) ==
    IF success THEN "SUCCESS" ELSE "FAIL"

\* lines 166-177: TestSuite(tests=[DataDriftTestPreset()]) run on the two
\* frames, as_dict()["tests"]: the test of the share of drifted columns,
\* then one drift test per column
drift_tests(self, current_data) ==
    LET table   == drift_by_columns(self, current_data)
        columns == TestedColumns(self)
    IN  <<[name   |-> "Share of Drifted Columns",
           status |-> Status(dataset_drift_metric(self, current_data).drift_score
                                 < TestDriftShare)]>> \o
        [k \in 1..Len(columns) |->
            [name   |-> <<"Drift per Column", columns[k]>>,
             status |-> Status(~table[columns[k]].drift_detected)]]

\* as_dict()["summary"]: the number of tests with status SUCCESS
success_tests(tests) ==
    Len(SelectSeq(tests, LAMBDA test : test.status = "SUCCESS"))

\* lines 154-205
run_drift_tests(self, current_data) ==
    LET tests   == drift_tests(self, current_data)
        summary == tests_summary(Len(tests), success_tests(tests))
    IN  [raised       |-> "none",
         total_tests  |-> summary.total_tests,
         passed_tests |-> summary.passed_tests,
         failed_tests |-> summary.failed_tests,
         success_rate |-> summary.success_rate,
         test_details |-> tests]

self_after_truncated(self) ==
    [self EXCEPT !.n_reference = 1]

\* lines 78-339: the monitor after a drift operation.  The operations read
\* self.reference_data and self.column_mapping and assign to no attribute
\* of self; the reports copy the frames they are run on.
self_after(self) ==
    self

\* lines 78-339: the argument objects of a drift operation after the call.
\* The operations build new frames, series, dicts and lists (lines 117, 180,
\* 233-240, 297, 315) and assign into none of their arguments: rebinding
\* reference_predictions at line 227 changes the local name only.
passed_after(a) ==
    a

-----------------------------------------------------------------------------
(* The caller *)

\* The arguments operation o may be called on: any of args when no
\* invocation is recorded; the recorded arguments when the caller repeats,
\* once, the recorded invocation of o.
Callable(o, args) ==
    IF op = "idle" THEN args
    ELSE IF op = o /\ prev = None THEN {inp}
    ELSE {}

\* What prev becomes when operation o is called
Earlier(o) ==
    IF op = o THEN out ELSE None

\* lines 44-60: DriftMonitor(reference_data, model_path, drift_threshold).
\* Of reference_data the operations read its length and its columns: the
\* four features of column_mapping or none of them, with or without the
\* target "species"; a frame has at least one column.
Monitors ==
    {self \in [n_reference     : 1..MaxRef,
               has_features    : BOOLEAN,
               has_target      : BOOLEAN,
               drift_threshold : {50, 80}] : Columns(self) # {}}

\* no pipeline run, no serving process and no submission under way
NoPipeline ==
    /\ run = None
    /\ tasks = <<>>
    /\ artifacts = None

NoServer ==
    /\ MODEL = None
    /\ SCALER = None
    /\ MODEL_INFO = None
    /\ loads = 0
    /\ response = None

NoSubmission ==
    /\ kfp = None
    /\ submit = None

Init ==
    /\ NoPipeline
    /\ NoServer
    /\ NoSubmission
    /\ monitor \in Monitors
    /\ given = monitor
    /\ op = "idle"
    /\ inp = None
    /\ arg = None
    /\ out = None
    /\ prev = None
    /\ threads = <<>>
    /\ rng = <<>>
    /\ seeded = <<>>

GateArgs ==
    [evaluation_results : [accuracy : MetricValues, f1_score : MetricValues],
     accuracy_threshold : ThresholdValues,
     f1_threshold       : ThresholdValues]

CallGate ==
    \E a \in Callable("check_model_thresholds", GateArgs) :
        /\ prev' = Earlier("check_model_thresholds")
        /\ op' = "check_model_thresholds"
        /\ inp' = a
        /\ out' = check_model_thresholds(a.evaluation_results, a.accuracy_threshold,
                                         a.f1_threshold)
        /\ arg' = [a EXCEPT !.evaluation_results =
                       evaluation_results_after(a.evaluation_results,
                                                a.accuracy_threshold, a.f1_threshold)]
        /\ UNCHANGED <<monitor, given, threads, rng, seeded, pipe, serve, kube>>

CrossValidationArgs ==
    [model_scores : [1..MaxFolds -> FoldScores],
     y            : LabelCounts,
     cv_folds     : 0..MaxFolds]

\* cross_val_score fits clones of the model and leaves X and y as they are
CallCrossValidation ==
    \E a \in Callable("perform_cross_validation", CrossValidationArgs) :
        /\ prev' = Earlier("perform_cross_validation")
        /\ op' = "perform_cross_validation"
        /\ inp' = a
        /\ out' = perform_cross_validation(a.model_scores, a.y, a.cv_folds)
        /\ arg' = a
        /\ UNCHANGED <<monitor, given, threads, rng, seeded, pipe, serve, kube>>

SummaryArgs ==
    [data_drift_results : DataDriftInputs,
     test_results       : TestSummaries,
     prediction_drift   : PredictionDriftInputs]

CallSummary ==
    \E a \in Callable("generate_monitoring_summary", SummaryArgs), now \in Clock :
        /\ prev' = Earlier("generate_monitoring_summary")
        /\ op' = "generate_monitoring_summary"
        /\ inp' = a
        /\ out' = generate_monitoring_summary(a.data_drift_results, a.test_results,
                                              a.prediction_drift, now)
        /\ arg' = passed_after(a)
        /\ monitor' = self_after(monitor)
        /\ UNCHANGED <<given, threads, rng, seeded, pipe, serve, kube>>

PredictionArgs ==
    [current_predictions   : [is_none : {FALSE}, column : PredictionColumns],
     reference_predictions : {None} \cup [is_none : {FALSE}, column : PredictionColumns]]

CallPrediction ==
    \E a \in Callable("monitor_prediction_drift", PredictionArgs) :
        \E reference_column \in reference_columns(monitor, a.reference_predictions) :
            /\ prev' = Earlier("monitor_prediction_drift")
            /\ op' = "monitor_prediction_drift"
            /\ inp' = a
            /\ out' = prediction_drift_of(a.current_predictions.column, reference_column)
            /\ arg' = passed_after(a)
            /\ monitor' = self_after(monitor)
            /\ UNCHANGED <<given, threads, rng, seeded, pipe, serve, kube>>

CallDataDrift ==
    \E a \in Callable("detect_data_drift", [current_data : CurrentData(monitor)]),
       now \in Clock, outcome \in report_run(monitor) :
        /\ prev' = Earlier("detect_data_drift")
        /\ op' = "detect_data_drift"
        /\ inp' = a
        /\ out' = IF outcome = "none"
                  THEN detect_data_drift(monitor, a.current_data, now)
                  ELSE [raised |-> outcome]
        /\ arg' = passed_after(a)
        /\ monitor' = self_after(monitor)
        /\ UNCHANGED <<given, threads, rng, seeded, pipe, serve, kube>>

\* main, lines 410-418: the result of detect_data_drift on current_data and
\* the result of run_drift_tests on the same data are handed to
\* generate_monitoring_summary, with no prediction drift
MainSummary ==
    \E now \in Clock :
        LET a == [data_drift_results |-> out,
                  test_results       |-> run_drift_tests(monitor, inp.current_data),
                  prediction_drift   |-> None]
        IN  /\ op = "detect_data_drift"
            /\ out.raised = "none"
            /\ prev' = None
            /\ op' = "generate_monitoring_summary"
            /\ inp' = a
            /\ out' = generate_monitoring_summary(a.data_drift_results, a.test_results,
                                                  a.prediction_drift, now)
            /\ arg' = passed_after(a)
            /\ monitor' = self_after(monitor)
            /\ UNCHANGED <<given, threads, rng, seeded, pipe, serve, kube>>

CallDriftTests ==
    \E a \in Callable("run_drift_tests", [current_data : CurrentData(monitor)]),
       outcome \in report_run(monitor) :
        /\ prev' = Earlier("run_drift_tests")
        /\ op' = "run_drift_tests"
        /\ inp' = a
        /\ out' = IF outcome = "none"
                  THEN run_drift_tests(monitor, a.current_data)
                  ELSE [raised |-> outcome]
        /\ arg' = passed_after(a)
        /\ monitor' = self_after(monitor)
        /\ UNCHANGED <<given, threads, rng, seeded, pipe, serve, kube>>

Return ==
    /\ op # "idle"
    /\ op' = "idle"
    /\ inp' = None
    /\ arg' = None
    /\ out' = None
    /\ prev' = None
    /\ UNCHANGED <<monitor, given, threads, rng, seeded, pipe, serve, kube>>

Next ==
    \/ CallGate
    \/ CallCrossValidation
    \/ CallSummary
    \/ CallPrediction
    \/ CallDataDrift
    \/ CallDriftTests
    \/ MainSummary
    \/ Return

Spec == Init /\ [][Next]_vars

-----------------------------------------------------------------------------
(* Concurrent invocations: one invocation of a core operation per thread,  *)
(* each on arguments and a monitor of its own                              *)

Threads == {"t1", "t2"}

\* the monitors of the threads, each over a reference frame of one row
ThreadMonitors ==
    {self \in Monitors : /\ self.n_reference = 1
                         /\ self.has_features
                         /\ self.has_target
                         /\ self.drift_threshold = 50}

\* line 229: np.random is the generator of the process, one for all
\* threads; its state is the labels its next draws return
Streams == [1..Cardinality(Threads) -> Labels]

\* np.random.choice([0, 1, 2], size=n_samples) on the generator in state
\* stream: the column drawn
drawn(stream, n_samples) ==
    [i \in Labels |-> Cardinality({k \in 1..n_samples : stream[k] = i})]

\* the generator's state after that draw
advanced(stream, n_samples) ==
    SubSeq(stream, n_samples + 1, Len(stream))

\* the calls a thread makes
ThreadGateArgs ==
    {a \in GateArgs : /\ a.accuracy_threshold = DefaultThreshold
                      /\ a.f1_threshold = DefaultThreshold
                      /\ a.evaluation_results.accuracy \in Near(DefaultThreshold)
                      /\ a.evaluation_results.f1_score = DefaultThreshold}

ThreadSummaryArgs ==
    {a \in SummaryArgs : /\ a.data_drift_results.dataset_drift_score \in {0, 100}
                         /\ a.data_drift_results.n_features_drifted = 0
                         /\ a.test_results = tests_summary(1, 1)
                         /\ a.prediction_drift = None}

ThreadPredictionArgs ==
    {a \in PredictionArgs :
        /\ Rows(a.current_predictions.column) = 1
        /\ \/ a.reference_predictions.is_none
           \/ a.reference_predictions = a.current_predictions}

\* now is the clock reading a summary takes at line 316
Calls ==
    [operation : {"check_model_thresholds"}, self : {None}, args : ThreadGateArgs,
     now : {0}]
    \cup
    [operation : {"generate_monitoring_summary"}, self : ThreadMonitors,
     args : ThreadSummaryArgs, now : Clock]
    \cup
    [operation : {"monitor_prediction_drift"}, self : ThreadMonitors,
     args : ThreadPredictionArgs, now : {0}]

InitConc ==
    /\ NoPipeline
    /\ NoServer
    /\ NoSubmission
    /\ monitor = None
    /\ given = None
    /\ op = "idle"
    /\ inp = None
    /\ arg = None
    /\ out = None
    /\ prev = None
    /\ threads \in [Threads -> {[call |-> c, pc |-> "called", reference |-> None,
                                  result |-> None] : c \in Calls}]
    /\ rng \in Streams
    /\ seeded = rng

\* evaluate_model.py lines 173-210, run by thread t
GateRun(t) ==
    LET a == threads[t].call.args
    IN  /\ threads[t].pc = "called"
        /\ threads[t].call.operation = "check_model_thresholds"
        /\ threads' = [threads EXCEPT
               ![t].pc = "returned",
               ![t].result = check_model_thresholds(a.evaluation_results,
                                                    a.accuracy_threshold, a.f1_threshold)]
        /\ UNCHANGED <<monitor, given, op, inp, arg, out, prev, rng, seeded, pipe, serve, kube>>

\* lines 269-339, run by thread t
SummaryRun(t) ==
    LET a == threads[t].call.args
    IN  /\ threads[t].pc = "called"
        /\ threads[t].call.operation = "generate_monitoring_summary"
        /\ threads' = [threads EXCEPT
               ![t].pc = "returned",
               ![t].result = generate_monitoring_summary(a.data_drift_results,
                                 a.test_results, a.prediction_drift, threads[t].call.now)]
        /\ UNCHANGED <<monitor, given, op, inp, arg, out, prev, rng, seeded, pipe, serve, kube>>

\* lines 224-230, run by thread t: with no reference_predictions the
\* reference column is drawn from the generator of the process, which
\* advances; a supplied reference is taken as it is
PredictionSample(t) ==
    LET a == threads[t].call.args
        n_samples == threads[t].call.self.n_reference
    IN  /\ threads[t].pc = "called"
        /\ threads[t].call.operation = "monitor_prediction_drift"
        /\ IF a.reference_predictions.is_none
           THEN /\ threads' = [threads EXCEPT ![t].pc = "sampled",
                                              ![t].reference = drawn(rng, n_samples)]
                /\ rng' = advanced(rng, n_samples)
           ELSE /\ threads' = [threads EXCEPT ![t].pc = "sampled",
                                              ![t].reference = a.reference_predictions.column]
                /\ rng' = rng
        /\ UNCHANGED <<monitor, given, op, inp, arg, out, prev, seeded, pipe, serve, kube>>

\* lines 232-267, run by thread t
PredictionRun(t) ==
    /\ threads[t].pc = "sampled"
    /\ threads' = [threads EXCEPT
           ![t].pc = "returned",
           ![t].result = prediction_drift_of(threads[t].call.args.current_predictions.column,
                                             threads[t].reference)]
    /\ UNCHANGED <<monitor, given, op, inp, arg, out, prev, rng, seeded, pipe, serve, kube>>

NextConc ==
    \E t \in Threads :
        \/ GateRun(t)
        \/ SummaryRun(t)
        \/ PredictionSample(t)
        \/ PredictionRun(t)

SpecConc == InitConc /\ [][NextConc]_vars

-----------------------------------------------------------------------------
(* The Kubeflow pipelines: iris_ml_pipeline,                               *)
(* src/src/pipelines/iris_pipeline.py, and iris_ml_pipeline_fixed,         *)
(* src/src/pipelines/iris_pipeline_fixed.py.  The components are the       *)
(* repository's; the order in which tasks run is the orchestrator's: a     *)
(* task starts when the tasks whose outputs it takes have succeeded and,   *)
(* inside a dsl.If group, when the condition holds.                        *)

core == <<monitor, given, op, inp, arg, out, prev>>

conc == <<threads, rng, seeded>>

\* no core invocation recorded, no monitor constructed, no thread
NoCore ==
    /\ monitor = None
    /\ given = None
    /\ op = "idle"
    /\ inp = None
    /\ arg = None
    /\ out = None
    /\ prev = None
    /\ threads = <<>>
    /\ rng = <<>>
    /\ seeded = <<>>

Original == "iris_ml_pipeline"
Fixed == "iris_ml_pipeline_fixed"

TrainTask == "train_iris_model"
EvaluateTask == "evaluate_model"
TrainAndEvaluateTask == "train_and_evaluate_iris"
ServingTask == "prepare_model_serving"
MonitoringTask == "setup_drift_monitoring"
RegistryTask == "register_model"

\* the tasks a pipeline function creates
Tasks(pipeline) ==
    IF pipeline = Original
    THEN {TrainTask, EvaluateTask, ServingTask, MonitoringTask, RegistryTask}
    ELSE {TrainAndEvaluateTask, ServingTask, MonitoringTask, RegistryTask}

\* the task whose "Output" is the deploy decision
evaluation_task(pipeline) ==
    IF pipeline = Original THEN EvaluateTask ELSE TrainAndEvaluateTask

\* the tasks whose outputs a task takes as arguments
upstream(pipeline, task) ==
    IF pipeline = Original
    THEN CASE task = TrainTask      -> {}
           [] task = EvaluateTask   -> {TrainTask}
           [] task = ServingTask    -> {TrainTask}
           [] task = MonitoringTask -> {TrainTask}
           [] task = RegistryTask   -> {TrainTask, EvaluateTask}
    ELSE IF task = TrainAndEvaluateTask THEN {} ELSE {TrainAndEvaluateTask}

in_deployment_gate_none(pipeline, task) ==
    FALSE

\* iris_pipeline.py line 393: the tasks created inside
\* dsl.If(eval_task.outputs["Output"] == "deploy")
in_deployment_gate(pipeline, task) ==
    pipeline = Original /\ task \in {ServingTask, MonitoringTask, RegistryTask}

\* default accuracy_threshold and f1_threshold of both pipelines, 0.85
DefaultPipelineThreshold == 85

\* run_pipeline.py lines 36-42 runs the pipeline with thresholds 0.8
PipelineThresholds == {DefaultThreshold, DefaultPipelineThreshold}

\* accuracy and weighted F1 the trained model attains on the test split
PipelineMetrics == {100} \cup Near(DefaultPipelineThreshold)

ServingPath == "/tmp/model_serving"

\* iris_pipeline.py lines 154-220: the evaluation report and the decision
evaluate_model(accuracy, f1, accuracy_threshold, f1_threshold) ==
    LET deploy == accuracy >= accuracy_threshold /\ f1 >= f1_threshold
        deploy_decision == IF deploy THEN "deploy" ELSE "no-deploy"
    IN  [accuracy           |-> accuracy,
         f1_score           |-> f1,
         accuracy_threshold |-> accuracy_threshold,
         f1_threshold       |-> f1_threshold,
         deploy_decision    |-> deploy_decision]

train_and_evaluate_iris_strict(accuracy, f1, accuracy_threshold, f1_threshold) ==
    [train_accuracy     |-> 100,
     test_accuracy      |-> accuracy,
     accuracy           |-> accuracy,
     f1_score           |-> f1,
     accuracy_threshold |-> accuracy_threshold,
     f1_threshold       |-> f1_threshold,
     deploy_decision    |-> IF accuracy > accuracy_threshold /\ f1 > f1_threshold
                            THEN "deploy" ELSE "no-deploy"]

\* iris_pipeline_fixed.py lines 60-138; the forest fits its training data,
\* and test_score is the accuracy on the split the evaluation uses
train_and_evaluate_iris(accuracy, f1, accuracy_threshold, f1_threshold) ==
    LET deploy == accuracy >= accuracy_threshold /\ f1 >= f1_threshold
        deploy_decision == IF deploy THEN "deploy" ELSE "no-deploy"
    IN  [train_accuracy     |-> 100,
         test_accuracy      |-> accuracy,
         accuracy           |-> accuracy,
         f1_score           |-> f1,
         accuracy_threshold |-> accuracy_threshold,
         f1_threshold       |-> f1_threshold,
         deploy_decision    |-> deploy_decision]

\* iris_pipeline.py lines 238-258: the files in the serving directory and
\* the text of serving_uri
prepare_model_serving(model_info_exists) ==
    [serving_dir |-> {"model.pkl", "scaler.pkl"} \cup
                     (IF model_info_exists THEN {"model_info.json"} ELSE {}),
     serving_uri |-> ServingPath]

\* iris_pipeline_fixed.py lines 158-179
prepare_model_serving_fixed(deploy_decision) ==
    IF deploy_decision # "deploy"
    THEN [serving_dir |-> {}, serving_uri |-> "not-deployed"]
    ELSE [serving_dir |-> {"model.pkl", "scaler.pkl"}, serving_uri |-> ServingPath]

\* iris_pipeline.py lines 291-303: 120 of the 150 rows are the baseline
setup_drift_monitoring ==
    [baseline_size        |-> 120,
     drift_threshold      |-> 50,
     monitoring_frequency |-> "daily"]

\* iris_pipeline_fixed.py lines 203-230
setup_drift_monitoring_fixed(deploy_decision) ==
    IF deploy_decision # "deploy"
    THEN [status |-> "not-deployed"]
    ELSE [baseline_size        |-> 120,
          drift_threshold      |-> 50,
          monitoring_frequency |-> "daily",
          status               |-> "active"]

\* iris_pipeline.py lines 325-347
register_model(eval_report, now) ==
    [registered_at |-> now,
     metrics       |-> [accuracy |-> eval_report.accuracy,
                        f1_score |-> eval_report.f1_score],
     status        |-> "production-ready"]

register_model_fixed_always_ready(eval_report, deploy_decision, now) ==
    [registered_at |-> now,
     metrics       |-> [accuracy       |-> eval_report.accuracy,
                        f1_score       |-> eval_report.f1_score,
                        train_accuracy |-> eval_report.train_accuracy,
                        test_accuracy  |-> eval_report.test_accuracy],
     status        |-> "production-ready",
     deployed      |-> deploy_decision = "deploy"]

\* iris_pipeline_fixed.py lines 251-283
register_model_fixed(eval_report, deploy_decision, now) ==
    [registered_at |-> now,
     metrics       |-> [accuracy       |-> eval_report.accuracy,
                        f1_score       |-> eval_report.f1_score,
                        train_accuracy |-> eval_report.train_accuracy,
                        test_accuracy  |-> eval_report.test_accuracy],
     status        |-> IF deploy_decision = "deploy"
                       THEN "production-ready" ELSE "evaluation-only",
     deployed      |-> deploy_decision = "deploy"]

\* a run: the pipeline, its threshold parameters, what the trained model
\* attains, and whether model_info.json is where the serving step looks
Runs ==
    [pipeline           : {Original, Fixed},
     accuracy_threshold : PipelineThresholds,
     f1_threshold       : PipelineThresholds,
     accuracy           : PipelineMetrics,
     f1                 : PipelineMetrics,
     model_info_exists  : BOOLEAN]

InitPipeline ==
    /\ NoCore
    /\ NoServer
    /\ NoSubmission
    /\ run \in Runs
    /\ tasks = [task \in Tasks(run.pipeline) |-> "pending"]
    /\ artifacts = [model             |-> FALSE,
                    deploy_decision   |-> "",
                    evaluation_report |-> None,
                    serving_dir       |-> {},
                    serving_uri       |-> "",
                    monitoring_config |-> None,
                    registry_entry    |-> None]

\* the orchestrator starts a task
StartTask ==
    \E task \in DOMAIN tasks :
        /\ tasks[task] = "pending"
        /\ \A u \in upstream(run.pipeline, task) : tasks[u] = "succeeded"
        /\ in_deployment_gate(run.pipeline, task) =>
               /\ tasks[evaluation_task(run.pipeline)] = "succeeded"
               /\ artifacts.deploy_decision = "deploy"
        /\ tasks' = [tasks EXCEPT ![task] = "running"]
        /\ UNCHANGED <<run, artifacts, core, conc, serve, kube>>

\* a running task fails (its container, or an exception in the component)
FailTask ==
    \E task \in DOMAIN tasks :
        /\ tasks[task] = "running"
        /\ tasks' = [tasks EXCEPT ![task] = "failed"]
        /\ UNCHANGED <<run, artifacts, core, conc, serve, kube>>

Running(task) ==
    task \in DOMAIN tasks /\ tasks[task] = "running"

\* iris_pipeline.py lines 42-135
TrainIrisModel ==
    /\ Running(TrainTask)
    /\ tasks' = [tasks EXCEPT ![TrainTask] = "succeeded"]
    /\ artifacts' = [artifacts EXCEPT !.model = TRUE]
    /\ UNCHANGED <<run, core, conc, serve, kube>>

EvaluateModel ==
    LET report == evaluate_model(run.accuracy, run.f1, run.accuracy_threshold,
                                 run.f1_threshold)
    IN  /\ Running(EvaluateTask)
        /\ tasks' = [tasks EXCEPT ![EvaluateTask] = "succeeded"]
        /\ artifacts' = [artifacts EXCEPT !.evaluation_report = report,
                                          !.deploy_decision = report.deploy_decision]
        /\ UNCHANGED <<run, core, conc, serve, kube>>

TrainAndEvaluateIris ==
    LET report == train_and_evaluate_iris(run.accuracy, run.f1, run.accuracy_threshold,
                                          run.f1_threshold)
    IN  /\ Running(TrainAndEvaluateTask)
        /\ tasks' = [tasks EXCEPT ![TrainAndEvaluateTask] = "succeeded"]
        /\ artifacts' = [artifacts EXCEPT !.model = TRUE,
                                          !.evaluation_report = report,
                                          !.deploy_decision = report.deploy_decision]
        /\ UNCHANGED <<run, core, conc, serve, kube>>

PrepareModelServing ==
    LET served == IF run.pipeline = Original
                  THEN prepare_model_serving(run.model_info_exists)
                  ELSE prepare_model_serving_fixed(artifacts.deploy_decision)
    IN  /\ Running(ServingTask)
        /\ tasks' = [tasks EXCEPT ![ServingTask] = "succeeded"]
        /\ artifacts' = [artifacts EXCEPT !.serving_dir = served.serving_dir,
                                          !.serving_uri = served.serving_uri]
        /\ UNCHANGED <<run, core, conc, serve, kube>>

SetupDriftMonitoring ==
    /\ Running(MonitoringTask)
    /\ tasks' = [tasks EXCEPT ![MonitoringTask] = "succeeded"]
    /\ artifacts' = [artifacts EXCEPT !.monitoring_config =
           IF run.pipeline = Original
           THEN setup_drift_monitoring
           ELSE setup_drift_monitoring_fixed(artifacts.deploy_decision)]
    /\ UNCHANGED <<run, core, conc, serve, kube>>

RegisterModel ==
    \E now \in Clock :
        /\ Running(RegistryTask)
        /\ tasks' = [tasks EXCEPT ![RegistryTask] = "succeeded"]
        /\ artifacts' = [artifacts EXCEPT !.registry_entry =
               IF run.pipeline = Original
               THEN register_model(artifacts.evaluation_report, now)
               ELSE register_model_fixed(artifacts.evaluation_report,
                                         artifacts.deploy_decision, now)]
        /\ UNCHANGED <<run, core, conc, serve, kube>>

NextPipeline ==
    \/ StartTask
    \/ FailTask
    \/ TrainIrisModel
    \/ EvaluateModel
    \/ TrainAndEvaluateIris
    \/ PrepareModelServing
    \/ SetupDriftMonitoring
    \/ RegisterModel

SpecPipeline == InitPipeline /\ [][NextPipeline]_vars

-----------------------------------------------------------------------------
(* The serving process, src/src/serve_model.py: the module globals MODEL,  *)
(* SCALER and MODEL_INFO, load_model_artifacts and the endpoints.  The     *)
(* handlers run one at a time on the event loop, none awaits.  response    *)
(* records the last call: for an endpoint the request and the answer, for  *)
(* load_model_artifacts the error raised and the globals before the call.  *)

\* line 37
CLASS_NAMES == <<"setosa", "versicolor", "virginica">>

\* an object unpickled or parsed by the k-th call of load_model_artifacts
Loaded(k) == [is_none |-> FALSE, loaded_by |-> k]

\* the files load_model_artifacts opens, in the order of lines 144-155
ArtifactFiles == <<"model.pkl", "scaler.pkl", "model_info.json">>

\* how a load ends: every file loads, or the named file is the first that
\* cannot be opened or decoded
LoadOutcomes == {"none"} \cup {ArtifactFiles[k] : k \in DOMAIN ArtifactFiles}

\* lines 138-161: the three globals are assigned one after the other, each
\* when its file has loaded; an exception at any point is logged and
\* re-raised as RuntimeError, the assignments made before it standing
load_model_artifacts(globals, k, fails, now) ==
    LET g1 == IF fails = "model.pkl" THEN globals
              ELSE [globals EXCEPT !.MODEL = Loaded(k)]
        g2 == IF fails \in {"model.pkl", "scaler.pkl"} THEN g1
              ELSE [g1 EXCEPT !.SCALER = Loaded(k)]
        g3 == IF fails # "none" THEN g2
              ELSE [g2 EXCEPT !.MODEL_INFO = [is_none |-> FALSE, loaded_by |-> k,
                                              loaded_at |-> now]]
    IN  [globals |-> g3,
         raised  |-> IF fails = "none" THEN "none" ELSE "RuntimeError"]

\* an instance of a request, as the class id MODEL.predict returns for it;
\* CLASS_NAMES has no entry for class id 3, and line 272 (line 330) raises
\* IndexError on it
Instances == 0..Len(CLASS_NAMES)

Fails(instance) == instance + 1 \notin DOMAIN CLASS_NAMES

\* lines 271-277 (329-335): the PredictionResponse of one instance, as far
\* as it is determined by the class predicted
PredictionResponse(instance) ==
    [prediction |-> CLASS_NAMES[instance + 1], prediction_id |-> instance]

not_loaded_model_only(model, scaler) ==
    model = None

\* lines 243 and 295: MODEL is None or SCALER is None
not_loaded(model, scaler) ==
    model = None \/ scaler = None

\* lines 232-281; invoked counts the calls of SCALER.transform, and the
\* detail of a 500 answer is given without the text of the exception
predict(model, scaler, features) ==
    IF not_loaded(model, scaler)
    THEN [status |-> 503, detail |-> "Model not loaded", invoked |-> 0]
    ELSE IF scaler = None
    THEN [status |-> 500, detail |-> "Prediction failed", invoked |-> 0]
    ELSE IF Fails(features)
    THEN [status |-> 500, detail |-> "Prediction failed", invoked |-> 1]
    ELSE [status |-> 200, body |-> PredictionResponse(features), invoked |-> 1]

\* the instances the loop of line 303 gets through: all of them, or those
\* up to the first on which the prediction raises
Reached(instances) ==
    IF \E k \in DOMAIN instances : Fails(instances[k])
    THEN CHOOSE k \in DOMAIN instances :
             /\ Fails(instances[k])
             /\ \A j \in 1..(k - 1) : ~Fails(instances[j])
    ELSE Len(instances)

predict_batch_partial(model, scaler, instances) ==
    IF not_loaded(model, scaler)
    THEN [status |-> 503, detail |-> "Model not loaded", invoked |-> 0]
    ELSE LET done == IF \E k \in DOMAIN instances : Fails(instances[k])
                     THEN Reached(instances) - 1 ELSE Len(instances)
         IN  [status  |-> 200,
              body    |-> [predictions |-> [k \in 1..done |->
                                               PredictionResponse(instances[k])],
                           batch_size  |-> done],
              invoked |-> Reached(instances)]

\* lines 284-351: predictions is built instance by instance inside the
\* try; any exception leaves the loop and becomes the 500 answer
predict_batch(model, scaler, instances) ==
    IF not_loaded(model, scaler)
    THEN [status |-> 503, detail |-> "Model not loaded", invoked |-> 0]
    ELSE IF scaler = None /\ instances # <<>>
    THEN [status |-> 500, detail |-> "Batch prediction failed", invoked |-> 0]
    ELSE IF \E k \in DOMAIN instances : Fails(instances[k])
    THEN [status |-> 500, detail |-> "Batch prediction failed",
          invoked |-> Reached(instances)]
    ELSE LET predictions == [k \in 1..Len(instances) |->
                                PredictionResponse(instances[k])]
         IN  [status  |-> 200,
              body    |-> [predictions |-> predictions,
                           batch_size  |-> Len(predictions)],
              invoked |-> Len(instances)]

\* lines 199-229: 503 without a model; MODEL_INFO.get on None is an
\* AttributeError no handler catches, which the framework answers with 500
\* training_accuracy is what models/metrics.json gives: "test_accuracy", or
\* "None" when the file cannot be read
get_model_info(model, model_info, training_accuracy) ==
    IF model = None
    THEN [status |-> 503, detail |-> "Model not loaded"]
    ELSE IF model_info = None
    THEN [status |-> 500, detail |-> "Internal Server Error"]
    ELSE [status |-> 200,
          body   |-> [version           |-> "1.0.0",
                      training_accuracy |-> training_accuracy,
                      loaded_at         |-> model_info.loaded_at]]

\* batches of at most MaxBatch instances
Batches ==
    UNION {[1..n -> Instances] : n \in 0..MaxBatch}

InitServe ==
    /\ NoCore
    /\ NoPipeline
    /\ NoSubmission
    /\ NoServer

\* lines 128-161 (called by startup_event, line 168, or by any importer of
\* the module)
LoadModelArtifacts ==
    \E fails \in LoadOutcomes, now \in Clock :
        LET before == [MODEL |-> MODEL, SCALER |-> SCALER, MODEL_INFO |-> MODEL_INFO]
            load   == load_model_artifacts(before, loads + 1, fails, now)
        IN  /\ loads < MaxLoads
            /\ loads' = loads + 1
            /\ MODEL' = load.globals.MODEL
            /\ SCALER' = load.globals.SCALER
            /\ MODEL_INFO' = load.globals.MODEL_INFO
            /\ response' = [endpoint |-> "load_model_artifacts",
                            raised   |-> load.raised,
                            before   |-> before]
            /\ UNCHANGED <<core, conc, pipe, kube>>

\* lines 188-196
HealthCheck ==
    \E now \in Clock :
    /\ response' = [endpoint |-> "/health", status |-> 200,
                    body |-> [status |-> "healthy", model_loaded |-> MODEL # None,
                              timestamp |-> now]]
    /\ UNCHANGED <<MODEL, SCALER, MODEL_INFO, loads, core, conc, pipe, kube>>

\* lines 355-358
KserveReady ==
    /\ response' = [endpoint |-> "/v2/health/ready", status |-> 200,
                    body |-> [ready |-> MODEL # None]]
    /\ UNCHANGED <<MODEL, SCALER, MODEL_INFO, loads, core, conc, pipe, kube>>

GetModelInfo ==
    \E training_accuracy \in {"None", "test_accuracy"} :
        /\ response' = [endpoint |-> "/model/info",
                        answer   |-> get_model_info(MODEL, MODEL_INFO,
                                                    training_accuracy)]
        /\ UNCHANGED <<MODEL, SCALER, MODEL_INFO, loads, core, conc, pipe, kube>>

Predict ==
    \E features \in Instances :
        /\ response' = [endpoint |-> "/predict",
                        request  |-> features,
                        answer   |-> predict(MODEL, SCALER, features)]
        /\ UNCHANGED <<MODEL, SCALER, MODEL_INFO, loads, core, conc, pipe, kube>>

PredictBatch ==
    \E instances \in Batches :
        /\ response' = [endpoint |-> "/predict/batch",
                        request  |-> instances,
                        answer   |-> predict_batch(MODEL, SCALER, instances)]
        /\ UNCHANGED <<MODEL, SCALER, MODEL_INFO, loads, core, conc, pipe, kube>>

NextServe ==
    \/ LoadModelArtifacts
    \/ HealthCheck
    \/ KserveReady
    \/ GetModelInfo
    \/ Predict
    \/ PredictBatch

SpecServe == InitServe /\ [][NextServe]_vars

-----------------------------------------------------------------------------
(* Submission to Kubeflow Pipelines, src/src/run_pipeline.py.  kfp is the  *)
(* server behind kfp.Client: the display names of its pipelines and        *)
(* experiments and the runs started on it.  submit is one call of          *)
(* submit_to_kubeflow: its position, its locals pipeline_id and            *)
(* experiment_id ("" while unbound; an id is written as the display name   *)
(* it belongs to), how each was resolved, the exception in flight and the  *)
(* exception that left the function.  Every call of the client can raise.  *)

\* lines 51, 52, 54: the defaults main passes on
pipeline_name == "iris-classification-pipeline"

experiment_name == "iris-classification"

run_name == "iris-run"

PipelineNames == {pipeline_name, "other-pipeline"}

ExperimentNames == {experiment_name, "other-experiment"}

find_by_display_name_unchecked(items, name) ==
    IF name \in items
    THEN [raised |-> "none", id |-> name]
    ELSE [raised |-> "none", id |-> ""]

\* lines 97-106 and 115-123: the first listed item with the display name;
\* without one, line 106 (123) raises Exception.  A server with nothing to
\* list answers None for the list, and the for statement raises TypeError.
find_by_display_name(items, name) ==
    IF name \in items
    THEN [raised |-> "none", id |-> name]
    ELSE IF items = {}
    THEN [raised |-> "TypeError", id |-> ""]
    ELSE [raised |-> "Exception", id |-> ""]

\* what the clients' calls and the function's own statements raise
Exceptions == {"ApiException", "TypeError", "Exception"}

\* line 138: except Exception
caught(exception) ==
    exception \in Exceptions

InitSubmit ==
    /\ NoCore
    /\ NoPipeline
    /\ NoServer
    /\ \E pipelines \in SUBSET PipelineNames, experiments \in SUBSET ExperimentNames :
           kfp = [pipelines |-> pipelines, experiments |-> experiments, runs |-> {}]
    /\ submit = [pc |-> "client", pipeline_id |-> "", experiment_id |-> "",
                 pipeline_via |-> "", experiment_via |-> "",
                 exception |-> "none", propagated |-> "none"]

At(pc) ==
    submit # None /\ submit.pc = pc

Raise(exception) ==
    submit' = [submit EXCEPT !.pc = "except", !.exception = exception]

\* line 82
CreateClient ==
    /\ At("client")
    /\ \/ submit' = [submit EXCEPT !.pc = "upload"]
       \/ Raise("ApiException")
    /\ UNCHANGED <<kfp, core, conc, pipe, serve>>

\* lines 85-94: the server refuses a second pipeline of the same name
UploadPipeline ==
    /\ At("upload")
    /\ \/ /\ pipeline_name \notin kfp.pipelines
          /\ kfp' = [kfp EXCEPT !.pipelines = @ \cup {pipeline_name}]
          /\ submit' = [submit EXCEPT !.pc = "create",
                                      !.pipeline_id = pipeline_name,
                                      !.pipeline_via = "uploaded"]
       \/ /\ submit' = [submit EXCEPT !.pc = "list_pipelines"]
          /\ UNCHANGED kfp
    /\ UNCHANGED <<core, conc, pipe, serve>>

\* lines 96-106, in the handler of the failed upload
FindPipeline ==
    /\ At("list_pipelines")
    /\ \/ Raise("ApiException")
       \/ LET found == find_by_display_name(kfp.pipelines, pipeline_name)
          IN  IF found.raised # "none"
              THEN Raise(found.raised)
              ELSE submit' = [submit EXCEPT !.pc = "create",
                                           !.pipeline_id = found.id,
                                           !.pipeline_via = "found"]
    /\ UNCHANGED <<kfp, core, conc, pipe, serve>>

\* lines 109-112: create_experiment gives the experiment of that name,
\* new or existing
CreateExperiment ==
    /\ At("create")
    /\ \/ /\ kfp' = [kfp EXCEPT !.experiments = @ \cup {experiment_name}]
          /\ submit' = [submit EXCEPT !.pc = "run",
                                      !.experiment_id = experiment_name,
                                      !.experiment_via = "created"]
       \/ /\ submit' = [submit EXCEPT !.pc = "list_experiments"]
          /\ UNCHANGED kfp
    /\ UNCHANGED <<core, conc, pipe, serve>>

\* lines 114-123, in the handler of the failed create
FindExperiment ==
    /\ At("list_experiments")
    /\ \/ Raise("ApiException")
       \/ LET found == find_by_display_name(kfp.experiments, experiment_name)
          IN  IF found.raised # "none"
              THEN Raise(found.raised)
              ELSE submit' = [submit EXCEPT !.pc = "run",
                                           !.experiment_id = found.id,
                                           !.experiment_via = "found"]
    /\ UNCHANGED <<kfp, core, conc, pipe, serve>>

\* lines 126-136: the run is started in the experiment from the package
\* file; the call can fail before the server started the run or after
RunPipeline ==
    /\ At("run")
    /\ LET started == [kfp EXCEPT !.runs = @ \cup
                           {[experiment_id |-> submit.experiment_id,
                             job_name      |-> run_name]}]
       IN  \/ kfp' = started /\ submit' = [submit EXCEPT !.pc = "returned"]
           \/ kfp' = started /\ Raise("ApiException")
           \/ UNCHANGED kfp /\ Raise("ApiException")
    /\ UNCHANGED <<core, conc, pipe, serve>>

\* lines 138-140: the handler logs and the function ends
ExceptClause ==
    /\ At("except")
    /\ submit' = IF caught(submit.exception)
                 THEN [submit EXCEPT !.pc = "returned", !.exception = "none"]
                 ELSE [submit EXCEPT !.pc = "raised",
                                     !.propagated = submit.exception]
    /\ UNCHANGED <<kfp, core, conc, pipe, serve>>

NextSubmit ==
    \/ CreateClient
    \/ UploadPipeline
    \/ FindPipeline
    \/ CreateExperiment
    \/ FindExperiment
    \/ RunPipeline
    \/ ExceptClause

SpecSubmit == InitSubmit /\ [][NextSubmit]_vars

-----------------------------------------------------------------------------
(* Properties *)

Gate == op = "check_model_thresholds"
Summary == op = "generate_monitoring_summary"
Prediction == op = "monitor_prediction_drift"
DataDrift == op = "detect_data_drift"

\* C1: whatever the metrics and the thresholds, all_checks_passed is true
\* exactly when accuracy >= accuracy_threshold and f1_score >= f1_threshold,
\* and it is the conjunction of accuracy_check and f1_check.
C1_GatePassesIffBothMeetThreshold ==
    Gate =>
        /\ out.all_checks_passed =
             (/\ inp.evaluation_results.accuracy >= inp.accuracy_threshold
              /\ inp.evaluation_results.f1_score >= inp.f1_threshold)
        /\ out.all_checks_passed = (out.accuracy_check /\ out.f1_check)

\* one check passes, the other fails, and the gate refuses
C1_Witness ==
    /\ Gate
    /\ out.accuracy_check
    /\ ~out.f1_check
    /\ ~out.all_checks_passed

\* C2: the severity is "none" whenever no dataset drift is detected,
\* whatever the score; with drift detected it is "high" for a score above
\* 0.7, "medium" for 0.5 < score <= 0.7 and "low" for a score <= 0.5.
C2_SeverityByScore ==
    Summary =>
        LET detected == inp.data_drift_results.dataset_drift_detected
            score    == inp.data_drift_results.dataset_drift_score
        IN  /\ ~detected => out.drift_severity = "none"
            /\ detected /\ score > 70 => out.drift_severity = "high"
            /\ detected /\ 50 < score /\ score <= 70 => out.drift_severity = "medium"
            /\ detected /\ score <= 50 => out.drift_severity = "low"

\* drift detected with a score of exactly 0.7: medium
C2_Witness ==
    /\ Summary
    /\ inp.data_drift_results.dataset_drift_detected
    /\ inp.data_drift_results.dataset_drift_score = 70
    /\ out.drift_severity = "medium"

\* C3: overall_status is "alert" if and only if drift_severity is "medium"
\* or "high", and "ok" in every other case.
C3_AlertIffMediumOrHigh ==
    Summary =>
        /\ out.overall_status \in {"alert", "ok"}
        /\ out.overall_status = "alert" <=> out.drift_severity \in {"medium", "high"}

\* a medium severity raises the alert
C3_Witness ==
    /\ Summary
    /\ out.drift_severity = "medium"
    /\ out.overall_status = "alert"

Has(list, entry) ==
    \E i \in DOMAIN list : list[i] = entry

\* the place of an entry in the fixed order of the four recommendations
Rank(entry) ==
    CASE entry = Retrain -> 1
      [] entry = InvestigatePipeline -> 2
      [] entry = ImmediateAttention -> 3
      [] entry = MonitorPerformance -> 4
      [] OTHER -> 0

\* C4: the list holds the retrain entry iff the severity is medium or high,
\* the investigate-pipeline entry iff n_features_drifted > 2, the
\* immediate-attention entry iff success_rate < 0.8 and the
\* monitor-performance entry iff a prediction drift is supplied and
\* detected; the entries present are in that order, none twice.
C4_RecommendationRules ==
    Summary =>
        LET list == out.recommendations
        IN  /\ Has(list, Retrain) <=> out.drift_severity \in {"medium", "high"}
            /\ Has(list, InvestigatePipeline) <=>
                    inp.data_drift_results.n_features_drifted > 2
            /\ Has(list, ImmediateAttention) <=> inp.test_results.success_rate < 80
            /\ Has(list, MonitorPerformance) <=>
                    (/\ ~inp.prediction_drift.is_none
                     /\ inp.prediction_drift.drift_detected)
            /\ \A i \in DOMAIN list : Rank(list[i]) > 0
            /\ \A i, j \in DOMAIN list : i < j => Rank(list[i]) < Rank(list[j])

\* the scenario of the specification: a high severity with three features
\* drifted, tests passing and no prediction drift gives the retrain entry,
\* then the investigate-pipeline entry, and nothing else
C4_Witness ==
    /\ Summary
    /\ out.drift_severity = "high"
    /\ inp.data_drift_results.n_features_drifted = 3
    /\ inp.test_results.success_rate >= 80
    /\ inp.prediction_drift.is_none
    /\ out.recommendations = <<Retrain, InvestigatePipeline>>

\* C5: a metric exactly equal to its threshold passes its check, and a
\* model exactly on both thresholds passes the gate.
C5_EqualToThresholdPasses ==
    Gate =>
        /\ inp.evaluation_results.accuracy = inp.accuracy_threshold => out.accuracy_check
        /\ inp.evaluation_results.f1_score = inp.f1_threshold => out.f1_check
        /\ (/\ inp.evaluation_results.accuracy = inp.accuracy_threshold
             /\ inp.evaluation_results.f1_score = inp.f1_threshold)
                => out.all_checks_passed

\* a model exactly on both default thresholds, approved
C5_Witness ==
    /\ Gate
    /\ inp.accuracy_threshold = DefaultThreshold
    /\ inp.f1_threshold = DefaultThreshold
    /\ inp.evaluation_results.accuracy = DefaultThreshold
    /\ inp.evaluation_results.f1_score = DefaultThreshold
    /\ out.all_checks_passed

\* C6 (as claimed): dataset_drift_detected is true exactly when the share
\* of drifted monitored features is strictly above the monitor's
\* drift_threshold.
C6_DetectedIffShareAboveDriftThreshold ==
    (DataDrift /\ out.raised = "none") =>
        (out.dataset_drift_detected <=>
            100 * out.n_features_drifted >
                monitor.drift_threshold * Cardinality(DOMAIN out.feature_drift))

\* C7 (as claimed): dataset_drift_score is n_features_drifted divided by
\* the number of per-feature results reported, and lies in [0,1].
C7_ScoreIsDriftedFeatureFraction ==
    (DataDrift /\ out.raised = "none") =>
        /\ out.dataset_drift_score * Cardinality(DOMAIN out.feature_drift) =
                100 * out.n_features_drifted
        /\ out.dataset_drift_score \in 0..100

\* C8 (as claimed): with no reference_predictions, a second call on the
\* same current predictions returns the same kl_divergence, chi2_statistic,
\* p_value, drift_detected and reference_distribution (or fails alike).
C8_AbsentReferenceIsDeterministic ==
    (Prediction /\ inp.reference_predictions.is_none /\ prev # None) =>
        /\ out.raised = prev.raised
        /\ out.raised = "none" =>
            /\ out.kl_divergence = prev.kl_divergence
            /\ out.chi2_statistic = prev.chi2_statistic
            /\ out.p_value = prev.p_value
            /\ out.drift_detected = prev.drift_detected
            /\ out.reference_distribution = prev.reference_distribution

\* C9 (as claimed): whenever a chi-square statistic is reported for a
\* supplied reference sample, each of its terms compares the current value
\* of a class with the reference value of the same class, also when a class
\* is missing from one of the samples: values of different classes are
\* never paired.
C9_ChiSquarePairsSameClass ==
    (Prediction /\ ~inp.reference_predictions.is_none /\ out.raised = "none") =>
        \A k \in DOMAIN out.chi2_pairing :
            out.chi2_pairing[k][1] = out.chi2_pairing[k][2]

\* the probability a distribution (label -> value) gives a class in the
\* sum of the KL divergence
Weight(distribution, i) ==
    IF i \in DOMAIN distribution THEN distribution[i] ELSE Floor

\* the relative frequency of class i in a column, or the floor when the
\* class does not occur
FrequencyOrFloor(column, i) ==
    IF column[i] > 0 THEN Freq(column[i], Rows(column)) ELSE Floor

\* C10: the three terms p*log(p/q) of kl_divergence take p from the
\* reference distribution and q from the current distribution of the same
\* class, a class that does not occur in a sample contributing the floor
\* 1e-10; no p and no q is zero.
C10_KLReferenceOverCurrent ==
    (Prediction /\ out.raised = "none") =>
        \A i \in Labels :
            LET term == out.kl_divergence[i]
            IN  /\ term.p = Weight(out.reference_distribution, i)
                /\ term.q = Weight(out.current_distribution, i)
                /\ term.q = FrequencyOrFloor(inp.current_predictions.column, i)
                /\ ~inp.reference_predictions.is_none =>
                        term.p = FrequencyOrFloor(inp.reference_predictions.column, i)
                /\ term.p[1] > 0 /\ term.p[2] > 0
                /\ term.q[1] > 0 /\ term.q[2] > 0

\* class 0 occurs only in the reference and class 2 only in the current
\* sample: each contributes the floor on the other side
C10_Witness ==
    /\ Prediction
    /\ out.raised = "none"
    /\ ~inp.reference_predictions.is_none
    /\ inp.reference_predictions.column[0] > 0
    /\ inp.current_predictions.column[0] = 0
    /\ inp.current_predictions.column[2] > 0
    /\ inp.reference_predictions.column[2] = 0
    /\ out.kl_divergence[0].q = Floor
    /\ out.kl_divergence[2].p = Floor

\* two floats num/den * 10^-exp that are the same number
SameFloat(x, y) ==
    x[1] * y[2] = y[1] * x[2] /\ x[3] = y[3]

\* two columns in which every class has the same relative frequency
SameDistribution(current_column, reference_column) ==
    \A i \in Labels :
        current_column[i] * Rows(reference_column) =
            reference_column[i] * Rows(current_column)

\* C11: when the current and the reference predictions have the same class
\* distribution (classes that never occur included), every term p*log(p/q)
\* of the reported kl_divergence has p = q, so the divergence is 0.
C11_IdenticalDistributionsHaveZeroKL ==
    (/\ Prediction
     /\ ~inp.reference_predictions.is_none
     /\ SameDistribution(inp.current_predictions.column,
                         inp.reference_predictions.column)) =>
        /\ out.raised = "none"
        /\ \A i \in Labels : SameFloat(out.kl_divergence[i].p, out.kl_divergence[i].q)

\* the same distribution over two classes in samples of different sizes,
\* the third class occurring in neither
C11_Witness ==
    /\ Prediction
    /\ ~inp.reference_predictions.is_none
    /\ SameDistribution(inp.current_predictions.column,
                        inp.reference_predictions.column)
    /\ Rows(inp.current_predictions.column) # Rows(inp.reference_predictions.column)
    /\ inp.current_predictions.column[2] = 0
    /\ inp.current_predictions.column[1] > 0
    /\ inp.current_predictions.column[0] > inp.current_predictions.column[1]
    /\ out.kl_divergence[2].p = Floor
    /\ out.kl_divergence[2].q = Floor

\* C12: in every prediction-drift result, drift_detected is true if and
\* only if p_value < 0.05; a p_value of 0.05 (or nan) is not drift.
C12_DriftIffPValueBelowSignificance ==
    (Prediction /\ out.raised = "none") =>
        (out.drift_detected <=> (out.p_value # NaN /\ out.p_value < 50))

\* a statistic large enough for a p-value under 0.05
C12_Witness ==
    /\ Prediction
    /\ out.raised = "none"
    /\ out.p_value # NaN
    /\ out.p_value < 50
    /\ out.drift_detected

C14_OutOfRangeMetricsReturnNoGateResult ==
    (/\ Gate
     /\ \/ inp.evaluation_results.accuracy \in OutOfRange
        \/ inp.evaluation_results.f1_score \in OutOfRange) =>
        "all_checks_passed" \notin DOMAIN out

\* C15: check_model_thresholds leaves the evaluation_results it receives
\* unchanged; the returned record carries accuracy_value, f1_value,
\* accuracy_threshold and f1_threshold equal to the inputs; and a second
\* call with identical inputs returns an identical record.
C15_GateIsPure ==
    Gate =>
        /\ arg.evaluation_results = inp.evaluation_results
        /\ out.accuracy_value = inp.evaluation_results.accuracy
        /\ out.f1_value = inp.evaluation_results.f1_score
        /\ out.accuracy_threshold = inp.accuracy_threshold
        /\ out.f1_threshold = inp.f1_threshold
        /\ prev # None => out = prev

\* a second call on the same metrics, with two different thresholds, one
\* check failing
C15_Witness ==
    /\ Gate
    /\ prev # None
    /\ inp.accuracy_threshold # inp.f1_threshold
    /\ inp.evaluation_results.accuracy # inp.evaluation_results.f1_score
    /\ ~out.all_checks_passed
    /\ arg.evaluation_results = inp.evaluation_results

\* C16: feature-drift analysis with no shared feature column besides the
\* target fails with a ValidationError instead of returning a result.
C16_NoFeaturesRaisesValidationError ==
    (DataDrift /\ Columns(monitor) \cap Features = {}) =>
        out.raised = "ValidationError"

DriftTests == op = "run_drift_tests"

\* C19: no drift operation (detect_data_drift, run_drift_tests,
\* monitor_prediction_drift, generate_monitoring_summary) modifies the
\* monitor's reference data, the current data, or the prediction and result
\* structures passed to it: after any sequence of operations the monitor's
\* reference data is the one given at construction, and after each drift
\* operation its arguments are as they were passed.
C19_DriftOperationsModifyNothing ==
    /\ monitor = given
    /\ (DataDrift \/ DriftTests \/ Prediction \/ Summary) => arg = inp

\* the drift tests run a second time on data with a drifted column
C19_Witness ==
    /\ DriftTests
    /\ prev # None
    /\ out.raised = "none"
    /\ out.failed_tests > 0
    /\ out.passed_tests > 0
    /\ arg = inp
    /\ monitor = given
    /\ monitor.n_reference = MaxRef

CrossValidation == op = "perform_cross_validation"

\* C18: stability estimation fails with InsufficientDataError whenever
\* fold_count < 2 or some class has fewer than fold_count samples: it
\* returns no result then.
C18_TooFewFoldsOrSamplesReturnsNoResult ==
    (/\ CrossValidation
     /\ \/ inp.cv_folds < 2
        \/ \E i \in classes(inp.y) : inp.y[i] < inp.cv_folds) =>
        out.raised # "none"

\* what the call of thread t returns when it runs alone, from the state the
\* process was in when the threads started
Alone(t) ==
    LET call == threads[t].call
        a    == call.args
    IN  CASE call.operation = "check_model_thresholds" ->
                 check_model_thresholds(a.evaluation_results, a.accuracy_threshold,
                                        a.f1_threshold)
          [] call.operation = "generate_monitoring_summary" ->
                 generate_monitoring_summary(a.data_drift_results, a.test_results,
                                             a.prediction_drift, call.now)
          [] call.operation = "monitor_prediction_drift" ->
                 prediction_drift_of(a.current_predictions.column,
                     IF a.reference_predictions.is_none
                     THEN drawn(seeded, call.self.n_reference)
                     ELSE a.reference_predictions.column)

\* C20: for any interleaving of concurrent gate, prediction-drift and
\* summary invocations on separate inputs, each invocation returns the
\* result it returns when run alone.
C20_ConcurrentResultIsResultAlone ==
    \A t \in Threads :
        threads[t].pc = "returned" => threads[t].result = Alone(t)

\* the summary's data_drift_results is a result of detect_data_drift
FromDetection ==
    /\ Summary
    /\ "feature_drift" \in DOMAIN inp.data_drift_results

C26_AlertIffRetrainFirst ==
    Summary =>
        /\ out.overall_status = "alert" <=>
               (out.recommendations # <<>> /\ out.recommendations[1] = Retrain)
        /\ out.overall_status = "ok" => ~Has(out.recommendations, Retrain)

\* a summary with status "ok", detected drift of low severity, and the
\* other three recommendations
C26_Witness ==
    /\ Summary
    /\ out.overall_status = "ok"
    /\ out.drift_severity = "low"
    /\ out.recommendations = <<InvestigatePipeline, ImmediateAttention, MonitorPerformance>>

\* the number of classes that occur in a column of predictions
Occurring(column) ==
    Cardinality({i \in Labels : column[i] > 0})

\* C21: an error raised inside a core operation always reaches the caller
\* of that operation: what the caller gets is the error and nothing else,
\* never a partial or default result.  The errors are the ValueError of
\* the chi-square test on distributions of different lengths, the
\* ValueError of the cross-validation split, and the error of a report or
\* test-suite run.
C21_ErrorsReachTheCaller ==
    /\ (/\ Prediction
        /\ ~inp.reference_predictions.is_none
        /\ Occurring(inp.current_predictions.column) #
               Occurring(inp.reference_predictions.column)) =>
           out = [raised |-> "ValueError"]
    /\ (CrossValidation /\ stratified_k_fold(inp.cv_folds, inp.y) # "none") =>
           out = [raised |-> stratified_k_fold(inp.cv_folds, inp.y)]
    /\ (Prediction \/ CrossValidation \/ DataDrift \/ DriftTests) =>
           (out.raised # "none" => DOMAIN out = {"raised"})
    /\ (Gate \/ Summary) => "raised" \notin DOMAIN out

\* the chi-square test has raised inside monitor_prediction_drift, and the
\* caller has the error
C21_Witness ==
    /\ Prediction
    /\ ~inp.reference_predictions.is_none
    /\ Occurring(inp.current_predictions.column) = 1
    /\ Occurring(inp.reference_predictions.column) = 3
    /\ out = [raised |-> "ValueError"]

\* a task of the run under way has been started
Started(task) ==
    task \in DOMAIN tasks /\ tasks[task] # "pending"

Completed(task) ==
    task \in DOMAIN tasks /\ tasks[task] = "succeeded"

\* C22: in iris_ml_pipeline, prepare_model_serving, setup_drift_monitoring
\* and register_model have started only in runs where the evaluation task
\* has completed with output "deploy", and the evaluation task has started
\* only when training has completed.
C22_DownstreamOnlyAfterDeploy ==
    run.pipeline = Original =>
        /\ \A task \in {ServingTask, MonitoringTask, RegistryTask} :
               Started(task) =>
                   /\ Completed(EvaluateTask)
                   /\ artifacts.deploy_decision = "deploy"
        /\ Started(EvaluateTask) => Completed(TrainTask)

\* a run of iris_ml_pipeline in which the three tasks behind the gate have
\* all completed
C22_Witness ==
    /\ run.pipeline = Original
    /\ Completed(ServingTask)
    /\ Completed(MonitoringTask)
    /\ Completed(RegistryTask)
    /\ artifacts.deploy_decision = "deploy"

\* C23: for all accuracy, f1 and thresholds, the decision of evaluate_model
\* and of train_and_evaluate_iris is "deploy" exactly when
\* check_model_thresholds returns all_checks_passed = true on the same
\* values, and "no-deploy" otherwise.
C23_DecisionAgreesWithGate ==
    (run # None /\ Completed(evaluation_task(run.pipeline))) =>
        LET gate == check_model_thresholds([accuracy |-> run.accuracy, f1_score |-> run.f1],
                                           run.accuracy_threshold, run.f1_threshold)
        IN  artifacts.deploy_decision =
                IF gate.all_checks_passed THEN "deploy" ELSE "no-deploy"

\* train_and_evaluate_iris decides "deploy" on an accuracy equal to its
\* threshold
C23_Witness ==
    /\ run.pipeline = Fixed
    /\ Completed(TrainAndEvaluateTask)
    /\ run.accuracy = run.accuracy_threshold
    /\ run.f1 > run.f1_threshold
    /\ artifacts.deploy_decision = "deploy"

\* a monitoring configuration that sets monitoring up
MonitoringActive(config) ==
    /\ config # None
    /\ "drift_threshold" \in DOMAIN config

\* a registry entry that presents the model as deployable
Deployable(entry) ==
    /\ entry # None
    /\ \/ entry.status = "production-ready"
       \/ "deployed" \in DOMAIN entry /\ entry.deployed

\* C24: in both pipelines, when the decision is "no-deploy" no model or
\* scaler file is in the serving directory, serving_uri does not name the
\* serving path, no active monitoring configuration and no registry entry
\* with status "production-ready" or deployed = true is written; in the
\* fixed pipeline the registry status is "production-ready" iff the
\* decision is "deploy".
C24_NoDeployIsNeverPublished ==
    run # None =>
        /\ artifacts.deploy_decision = "no-deploy" =>
               /\ artifacts.serving_dir = {}
               /\ artifacts.serving_uri # ServingPath
               /\ ~MonitoringActive(artifacts.monitoring_config)
               /\ ~Deployable(artifacts.registry_entry)
        /\ (run.pipeline = Fixed /\ Completed(RegistryTask)) =>
               (artifacts.registry_entry.status = "production-ready" <=>
                    artifacts.deploy_decision = "deploy")

\* a no-deploy run of the fixed pipeline in which serving, monitoring and
\* registration have all run
C24_Witness ==
    /\ run.pipeline = Fixed
    /\ artifacts.deploy_decision = "no-deploy"
    /\ Completed(ServingTask)
    /\ Completed(MonitoringTask)
    /\ Completed(RegistryTask)
    /\ artifacts.serving_uri = "not-deployed"
    /\ artifacts.registry_entry.status = "evaluation-only"


-----------------------------------------------------------------------------
(* The serving process                                                     *)

Answered(endpoint) ==
    response # None /\ response.endpoint = endpoint

FailedLoad ==
    Answered("load_model_artifacts") /\ response.raised # "none"

ReportsLoaded ==
    \/ Answered("/health") /\ response.body.model_loaded
    \/ Answered("/v2/health/ready") /\ response.body.ready

\* C27: whatever loads succeeded and failed, a model is never held without
\* its scaler and its model info: so what /health and /v2/health/ready
\* report as loaded can predict and can describe itself, and a failed load
\* leaves MODEL, SCALER and MODEL_INFO as they were before the call.
C27_LoadedModelHasScalerAndInfo ==
    /\ MODEL # None => SCALER # None /\ MODEL_INFO # None
    /\ ReportsLoaded =>
           /\ predict(MODEL, SCALER, 0).status # 503
           /\ get_model_info(MODEL, MODEL_INFO, "None").status = 200
    /\ FailedLoad =>
           /\ MODEL = response.before.MODEL
           /\ SCALER = response.before.SCALER
           /\ MODEL_INFO = response.before.MODEL_INFO

Predicting ==
    Answered("/predict") \/ Answered("/predict/batch")

\* C28: while MODEL or SCALER is not loaded, /predict and /predict/batch
\* answer 503 "Model not loaded" without a call of the scaler or the
\* model; with both loaded they never answer 503.
C28_NotLoadedIsAlways503 ==
    Predicting =>
        IF MODEL = None \/ SCALER = None
        THEN response.answer = [status |-> 503, detail |-> "Model not loaded",
                                invoked |-> 0]
        ELSE response.answer.status # 503

\* a model without a scaler was asked to predict
C28_Witness ==
    /\ Predicting
    /\ MODEL # None
    /\ SCALER = None
    /\ response.answer.status = 503

\* C29: a batch answered with success holds one prediction per instance of
\* the request, in the order of the request, and batch_size is the number
\* of instances; a batch with an instance whose prediction fails is
\* answered 500 and the answer carries no prediction.
C29_BatchIsAllOrNothing ==
    Answered("/predict/batch") /\ MODEL # None /\ SCALER # None =>
        LET instances == response.request
            answer    == response.answer
        IN  IF \E k \in DOMAIN instances : Fails(instances[k])
            THEN /\ answer.status = 500
                 /\ "body" \notin DOMAIN answer
            ELSE /\ answer.status = 200
                 /\ answer.body.batch_size = Len(instances)
                 /\ Len(answer.body.predictions) = Len(instances)
                 /\ \A k \in DOMAIN instances :
                        answer.body.predictions[k] = PredictionResponse(instances[k])

\* a batch failed at its last instance, after predictions of two classes
C29_Witness ==
    /\ Answered("/predict/batch")
    /\ Len(response.request) = MaxBatch
    /\ response.request[1] # response.request[2]
    /\ Fails(response.request[MaxBatch])
    /\ response.answer.status = 500
    /\ response.answer.invoked = MaxBatch


-----------------------------------------------------------------------------
(* Submission                                                              *)

PipelineResolved ==
    /\ submit.pipeline_via \in {"uploaded", "found"}
    /\ submit.pipeline_id = pipeline_name
    /\ pipeline_name \in kfp.pipelines

ExperimentResolved ==
    /\ submit.experiment_via \in {"created", "found"}
    /\ submit.experiment_id = experiment_name
    /\ experiment_name \in kfp.experiments

\* C30: a run exists only when the pipeline was uploaded or found by its
\* display name and the experiment was created or found by its display
\* name, and it is a run in that experiment; a call that failed to
\* resolve one of the two ends without a run; and no call ends with an
\* exception leaving the function.
C30_RunOnlyAfterBothResolved ==
    /\ kfp.runs # {} =>
           /\ PipelineResolved
           /\ ExperimentResolved
           /\ \A r \in kfp.runs : r.experiment_id = submit.experiment_id
    /\ ~(PipelineResolved /\ ExperimentResolved) => kfp.runs = {}
    /\ ~At("raised")
    /\ submit.propagated = "none"

\* a run started after both the upload and the create had failed
C30_Witness ==
    /\ At("returned")
    /\ kfp.runs # {}
    /\ submit.pipeline_via = "found"
    /\ submit.experiment_via = "found"

====
